---- MODULE Spec2Model ----
(***************************************************************************)
(* Model of the user controller of the learning-management API             *)
(* (api/src/controllers/UserController.ts): the user collection, and the   *)
(* updateUser, deleteUser, searchUser and addUserPicture handlers; of the  *)
(* course media component of the front end (selection and bulk deletion);  *)
(* and of the login middleware with its directory-service fallback         *)
(* (api/src/security/passportLoginMiddleware.ts).                          *)
(***************************************************************************)
EXTENDS Integers, Sequences, FiniteSets, TLC

\* ------------------------------------------------------------------ bounds

\* Number of user ids (documents the collection can hold).
NumUsers == 2

\* Number of deleteUser requests that may be in flight together.
NumRequests == 2

\* Longest search query, in characters.
MaxQueryLen == 3

\* Number of random suffixes an uploaded picture's file name can get.
NumSuffixes == 2

\* Number of files in the course's media directory.
NumFiles == 3

Ids == 1..NumUsers
Requests == 1..NumRequests

\* ------------------------------------------------------------- value sets

\* The role enumeration of the User schema; editLevels knows three of them.
Roles == {"student", "teacher", "tutor", "admin"}

\* JavaScript null and undefined, an absent _id in a request body.
Null == "null"
Undefined == "undefined"
NoId == 0

Uids == {"uidA", "uidB"}
EmailList == <<"a@x", "b@x", "c@x">>
Emails == {EmailList[i] : i \in 1..Len(EmailList)}
Passwords == {"pw1", "pw2"}
Names == {"Ann", "Bob"}
NoPicture == <<>>

\* ------------------------------------------------------------------ state

VARIABLES
  users,   \* the user collection: a function from the ids present to documents
  last,    \* the request handled last and its response ("none" once delivered)
  del,     \* the deleteUser requests in flight: where each stands in its promise chain
  disk,    \* the files under uploads/users/
  media,   \* the course media component, its removeSelectedFile call, the media service
  auth     \* the login requests: where each stands, and what it did to its directory client

vars == <<users, last, del, disk, media, auth>>

\* The stored password is a hash of the plain password (User model).
Hash(p) == <<"hash", p>>

IsValidPassword(user, candidate) == Hash(candidate) = user.password

\* User.checkPrivileges(currentUser).userIsAdmin
UserIsAdmin(currentUser) == currentUser.role = "admin"

NoRequest ==
  [op |-> "none", currentUser |-> Null, id |-> NoId, newUser |-> Null,
   args |-> Null, before |-> <<>>, status |-> Null, message |-> Null,
   body |-> Null]

Rejected(name, message) == [status |-> name, message |-> message]
Accepted == [status |-> "ok", message |-> ""]

\* ------------------------------------------------------------- updateUser

editLevels == [student |-> 0, teacher |-> 1, admin |-> 2]

\* User.find({$and: [{email: newUser.email}, {_id: {$ne: newUser._id}}]})
sameEmail(us, newUser) ==
  {u \in DOMAIN us : us[u].email = newUser.email /\ u # newUser._id}

\* typeof newUser.password === 'undefined' || newUser.password.length === 0
NoPasswordSent(newUser) == newUser.password \in {Undefined, ""}

\* A level check with < for <=: an actor could edit its equals.
InsufficientLevelStrict(currentUser, oldUser, selfModification) ==
  /\ editLevels[currentUser.role] < editLevels[oldUser.role]
  /\ ~selfModification

\* currentEditLevel <= oldEditLevel && !selfModification
InsufficientLevel(currentUser, oldUser, selfModification) ==
  /\ editLevels[currentUser.role] <= editLevels[oldUser.role]
  /\ ~selfModification

\* A password check that lost its negation.
InvalidCurrentPasswordInverted(oldUser, newUser) ==
  /\ ~NoPasswordSent(newUser)
  /\ IsValidPassword(oldUser, newUser.currentPassword)

\* A password is sent and !(await oldUser.isValidPassword(newUser.currentPassword))
InvalidCurrentPassword(oldUser, newUser) ==
  /\ ~NoPasswordSent(newUser)
  /\ ~IsValidPassword(oldUser, newUser.currentPassword)

\* The checks of updateUser in the order of the code; the first that fails
\* decides the error thrown.
UpdateVerdict(us, currentUser, id, newUser) ==
  IF newUser.role \notin DOMAIN editLevels
    THEN Rejected("BadRequestError", "Invalid update role.")
  ELSE IF currentUser.role \notin DOMAIN editLevels
    THEN Rejected("InternalServerError", "Invalid current user role.")
  ELSE IF id = currentUser._id /\ currentUser.role # newUser.role
    THEN Rejected("BadRequestError", "You can't change your own role.")
  ELSE IF sameEmail(us, newUser) # {}
    THEN Rejected("BadRequestError", "This email address is already in use.")
  ELSE IF id \notin DOMAIN us
    \* findById gives null and oldUser.role throws
    THEN Rejected("TypeError", "Cannot read property 'role' of null")
  ELSE IF us[id].role \notin DOMAIN editLevels
    THEN Rejected("InternalServerError", "Invalid old user role.")
  ELSE IF /\ ~UserIsAdmin(currentUser)
          /\ InsufficientLevel(currentUser, us[id], id = currentUser._id)
    THEN Rejected("ForbiddenError",
                  "You don't have the authorization to change a user of this role.")
  ELSE IF ~UserIsAdmin(currentUser) /\ newUser.role # us[id].role
    THEN Rejected("ForbiddenError",
                  "Only users with admin privileges can change roles.")
  ELSE IF ~UserIsAdmin(currentUser) /\ newUser.uid # us[id].uid
    THEN Rejected("ForbiddenError",
                  "Only users with admin privileges can change uids.")
  ELSE IF newUser.password = Null
    \* typeof null is 'object', and newUser.password.length throws
    THEN Rejected("TypeError", "Cannot read property 'length' of null")
  ELSE IF InvalidCurrentPassword(us[id], newUser)
    THEN Rejected("BadRequestError", "Invalid current password!")
  ELSE Accepted

\* if (oldUser.uid && ...): null and undefined are falsy
Truthy(value) == value \notin {Null, Undefined, ""}

\* An update that never replaces a uid once one is set.
UpdatedUserKeepsUid(oldUser, newUser) ==
  [oldUser EXCEPT
     !.role = newUser.role,
     !.uid = IF Truthy(oldUser.uid) \/ newUser.uid = Undefined
               THEN oldUser.uid ELSE newUser.uid,
     !.email = newUser.email,
     !.name = newUser.name,
     !.password = IF NoPasswordSent(newUser)
                    THEN oldUser.password ELSE Hash(newUser.password)]

\* The document findOneAndUpdate({_id: id}, newUser) leaves: a set uid is
\* kept when null is submitted, a field the body lacks is not written, the
\* password is kept when none is sent.
UpdatedUser(oldUser, newUser) ==
  [oldUser EXCEPT
     !.role = newUser.role,
     !.uid = IF (Truthy(oldUser.uid) /\ newUser.uid = Null) \/ newUser.uid = Undefined
               THEN oldUser.uid ELSE newUser.uid,
     !.email = newUser.email,
     !.name = newUser.name,
     !.password = IF NoPasswordSent(newUser)
                    THEN oldUser.password ELSE Hash(newUser.password)]

\* Whether the update document names an _id other than the one selected.
\* What the database does with such a write is outside the controller: it
\* may apply the other fields or refuse the write.
WritesOtherId(id, newUser) == newUser._id \notin {NoId, id}

UpdateAuthorized == {"student", "teacher", "admin"}

\* PUT /users/:id, handled to completion.
UpdateUser(currentUser, id, newUser, dbApplies) ==
  /\ last.op = "none"
  /\ currentUser.role \in UpdateAuthorized
  /\ LET verdict == UpdateVerdict(users, currentUser, id, newUser)
         result == IF verdict.status = "ok" /\ ~dbApplies
                     THEN Rejected("MongoError", "Mod on _id not allowed")
                     ELSE verdict
     IN /\ ~dbApplies => (verdict.status = "ok" /\ WritesOtherId(id, newUser))
        /\ users' = IF result.status = "ok"
                      THEN [users EXCEPT ![id] = UpdatedUser(users[id], newUser)]
                      ELSE users
        /\ last' = [op |-> "update", currentUser |-> currentUser, id |-> id,
                    newUser |-> newUser, args |-> Null, before |-> users,
                    status |-> result.status, message |-> result.message,
                    body |-> Null]
        /\ UNCHANGED <<del, disk, media, auth>>

\* ------------------------------------------------------------- deleteUser

\* User.find({'role': 'admin'})
AdminUsers(us) == {u \in DOMAIN us : us[u].role = "admin"}

\* A check that refuses to delete any admin, sole or not.
IsSoleAdminAnyCount(adminUsers, id) == id \in adminUsers

\* A check that compares the length with 0.
IsSoleAdminNever(adminUsers, id) ==
  /\ Cardinality(adminUsers) = 0
  /\ id \in adminUsers

\* adminUsers.length === 1 && adminUsers[0].get('id') === id && role === 'admin'
IsSoleAdmin(adminUsers, id) ==
  /\ Cardinality(adminUsers) = 1
  /\ id \in adminUsers

\* User.findByIdAndRemove(id)
RemoveUser(us, id) == [u \in DOMAIN us \ {id} |-> us[u]]

\* DELETE /users/:id, handled to completion.
DeleteUser(currentUser, id) ==
  /\ last.op = "none"
  /\ currentUser.role = "admin"
  /\ LET adminUsers == AdminUsers(users)
         sole == IsSoleAdmin(adminUsers, id)
     IN /\ users' = IF sole THEN users ELSE RemoveUser(users, id)
        /\ last' = [op |-> "delete", currentUser |-> currentUser, id |-> id,
                    newUser |-> Null, args |-> Null, before |-> users,
                    status |-> IF sole THEN "BadRequestError" ELSE "ok",
                    message |-> IF sole
                      THEN "There are no other users with admin privileges."
                      ELSE "",
                    body |-> IF sole THEN Null ELSE [result |-> TRUE]]
        /\ UNCHANGED <<del, disk, media, auth>>

\* deleteUser as the runtime may schedule it: the handler returns a promise
\* chain, and other requests run between User.find and its then-callback.
NoDelete == [pc |-> "idle", id |-> NoId, adminUsers |-> {}, status |-> Null]

\* User.find({'role': 'admin'}) resolves with the admins stored now.
DeleteFind(r, currentUser, id) ==
  /\ del[r].pc = "idle"
  /\ currentUser.role = "admin"
  /\ del' = [del EXCEPT ![r] = [pc |-> "found", id |-> id,
                                 adminUsers |-> AdminUsers(users),
                                 status |-> Null]]
  /\ UNCHANGED <<users, last, disk, media, auth>>

\* A then-callback that reads the admin list again when it runs.
DeleteThenRereads(r) ==
  /\ del[r].pc = "found"
  /\ LET sole == IsSoleAdmin(AdminUsers(users), del[r].id)
     IN /\ users' = IF sole THEN users ELSE RemoveUser(users, del[r].id)
        /\ del' = [del EXCEPT ![r].pc = "done",
                               ![r].status = IF sole THEN "BadRequestError" ELSE "ok"]
  /\ UNCHANGED <<last, disk, media, auth>>

\* The then-callback: the check on the list read earlier, then the removal.
DeleteThen(r) ==
  /\ del[r].pc = "found"
  /\ LET sole == IsSoleAdmin(del[r].adminUsers, del[r].id)
     IN /\ users' = IF sole THEN users ELSE RemoveUser(users, del[r].id)
        /\ del' = [del EXCEPT ![r].pc = "done",
                               ![r].status = IF sole THEN "BadRequestError" ELSE "ok"]
  /\ UNCHANGED <<last, disk, media, auth>>

\* No request is being handled.
Idle == last.op = "none"

\* The response is delivered; the next request may start.
Respond ==
  /\ last.op # "none"
  /\ last' = NoRequest
  /\ UNCHANGED <<users, del, disk, media, auth>>

\* ------------------------------------------------------------- searchUser

\* Text is a sequence of one-character strings. The stored values as text,
\* lower-cased (the regular expressions carry the i flag).
Chars(v) ==
  CASE v = "Ann" -> <<"a", "n", "n">>
    [] v = "Bob" -> <<"b", "o", "b">>
    [] v = "a@x" -> <<"a", "@", "x">>
    [] v = "b@x" -> <<"b", "@", "x">>
    [] v = "c@x" -> <<"c", "@", "x">>
    [] v = "uidA" -> <<"u", "i", "d", "a">>
    [] v = "uidB" -> <<"u", "i", "d", "b">>

\* A request without a query parameter.
NoQuery == <<Undefined>>

\* The characters /[-\/\\^$*+?.()|[\]{}]/ of escapeRegex.
RegexSpecials ==
  {"-", "/", "\\", "^", "$", "*", "+", "?", ".", "(", ")", "|", "[", "]", "{", "}"}

\* text.replace(/[-\/\\^$*+?.()|[\]{}]/g, '\\$&')
RECURSIVE escapeRegex(_)
escapeRegex(text) ==
  IF text = <<>> THEN <<>>
  ELSE (IF Head(text) \in RegexSpecials THEN <<"\\", Head(text)>> ELSE <<Head(text)>>)
       \o escapeRegex(Tail(text))

\* String.prototype.trim, for the space character
RECURSIVE trimStart(_)
trimStart(q) == IF q # <<>> /\ Head(q) = " " THEN trimStart(Tail(q)) ELSE q

RECURSIVE trimEnd(_)
trimEnd(q) ==
  IF q # <<>> /\ q[Len(q)] = " " THEN trimEnd(SubSeq(q, 1, Len(q) - 1)) ELSE q

trim(q) == trimEnd(trimStart(q))

\* String.prototype.split(' '): the pieces between the spaces, empty ones too.
RECURSIVE split(_)
split(q) ==
  IF \A i \in 1..Len(q) : q[i] # " " THEN <<q>>
  ELSE LET i == CHOOSE j \in 1..Len(q) :
                  q[j] = " " /\ \A k \in 1..(j - 1) : q[k] # " "
       IN <<SubSeq(q, 1, i - 1)>> \o split(SubSeq(q, i + 1, Len(q)))

\* The atoms of a regular expression source: an escaped character stands
\* for itself, an unescaped dot for any character.
RECURSIVE RegexAtoms(_)
RegexAtoms(source) ==
  IF source = <<>> THEN <<>>
  ELSE IF Head(source) = "\\" /\ Len(source) >= 2
    THEN <<[any |-> FALSE, char |-> source[2]]>>
         \o RegexAtoms(SubSeq(source, 3, Len(source)))
  ELSE <<[any |-> Head(source) = ".", char |-> Head(source)]>>
       \o RegexAtoms(Tail(source))

\* {$regex: new RegExp(source, 'ig')} on a field: a match anywhere in the
\* text; a null field matches nothing.
RegexMatches(source, value) ==
  /\ value # Null
  /\ LET atoms == RegexAtoms(source)
         text == Chars(value)
     IN \E i \in 0..(Len(text) - Len(atoms)) :
          \A j \in 1..Len(atoms) : atoms[j].any \/ atoms[j].char = text[i + j]

\* {$text: {$search: query}}: a document matches when one of the words of
\* the query is a word of its indexed text.
TextMatches(query, user) ==
  \E i \in 1..Len(split(query)) :
    /\ split(query)[i] # <<>>
    /\ split(query)[i] \in {Chars(user.name), Chars(user.email)}

\* User.find(conditions).where({role: role}): the $or of the text search and
\* of the four regular expressions of every piece of the escaped query.
SearchMatches(us, role, query) ==
  LET escaped == split(escapeRegex(query))
  IN {u \in DOMAIN us :
        /\ us[u].role = role
        /\ \/ TextMatches(query, us[u])
           \/ \E i \in 1..Len(escaped) :
                \/ RegexMatches(escaped[i], us[u].uid)
                \/ RegexMatches(escaped[i], us[u].email)
                \/ RegexMatches(escaped[i], us[u].name)}

\* .limit(limit ? limit : Number.MAX_SAFE_INTEGER): which documents a limit
\* keeps is the database's choice among the best scored.
Limited(found, limit) ==
  IF limit = 0 \/ limit >= Cardinality(found) THEN {found}
  ELSE {kept \in SUBSET found : Cardinality(kept) = limit}

SearchAuthorized == {"teacher", "admin"}

\* GET /users/members/search, handled to completion.
SearchUser(currentUser, role, query, limit, kept) ==
  /\ last.op = "none"
  /\ currentUser.role \in SearchAuthorized
  /\ LET request == [role |-> role, query |-> query, limit |-> limit]
         answer ==
           IF role # "student" /\ role # "teacher"
             THEN [status |-> "BadRequestError",
                   message |-> "Method not allowed for this role.",
                   body |-> [searched |-> FALSE, users |-> {}, count |-> 0]]
           ELSE IF query = NoQuery
             \* query.trim() on undefined throws
             THEN [status |-> "TypeError",
                   message |-> "Cannot read property 'trim' of undefined",
                   body |-> [searched |-> FALSE, users |-> {}, count |-> 0]]
           \* isNullOrUndefined(query.trim()) never holds: no empty-query error
           ELSE [status |-> "ok", message |-> "",
                 body |-> [searched |-> TRUE, users |-> kept,
                           count |-> Cardinality({u \in DOMAIN users :
                                                   users[u].role = role})]]
     IN /\ kept \in IF role \in {"student", "teacher"} /\ query # NoQuery
                      THEN Limited(SearchMatches(users, role, trim(query)), limit)
                      ELSE {{}}
        /\ last' = [op |-> "search", currentUser |-> currentUser, id |-> NoId,
                    newUser |-> Null, args |-> request, before |-> users,
                    status |-> answer.status, message |-> answer.message,
                    body |-> answer.body]
  /\ UNCHANGED <<users, del, disk, media, auth>>

\* --------------------------------------------------------- addUserPicture

\* user.password = ''; user.uid = null unless the viewer is the subject
\* (the role condition of the code holds for every role).
cleanUserObject(id, user, currentUser) ==
  [user EXCEPT
     !.password = "",
     !.uid = IF /\ currentUser._id # id
                /\ (currentUser.role # "teacher" \/ currentUser.role # "admin")
               THEN Null ELSE user.uid]

\* POST /users/picture/:id, handled to completion. The upload middleware has
\* stored the file as <id>-<suffix> before the handler runs.
AddUserPicture(currentUser, id, suffix) ==
  /\ last.op = "none"
  /\ LET file == <<id, suffix>>
         uploaded == disk \cup {file}
         found == id \in DOMAIN users
         \* the picture stored before is unlinked when its file exists
         unlinked == IF found /\ users[id].picture # NoPicture
                       THEN uploaded \ {users[id].picture} ELSE uploaded
         \* sharp(file.path) reads the upload, and throws when it is gone
         saved == found /\ file \in unlinked
         user == [users[id] EXCEPT !.picture = file]
     IN /\ disk' = unlinked
        /\ users' = IF saved THEN [users EXCEPT ![id] = user] ELSE users
        /\ last' = [op |-> "picture", currentUser |-> currentUser, id |-> id,
                    newUser |-> Null, args |-> file, before |-> users,
                    status |-> IF saved THEN "ok" ELSE "BadRequestError",
                    message |-> "",
                    body |-> IF saved THEN cleanUserObject(id, user, currentUser)
                                      ELSE Null]
  /\ UNCHANGED <<del, media, auth>>

\* ------------------------------------------------- course media component

\* The files of the course's directory, and the name of each.
Files == 1..NumFiles
FileNames == <<"b.txt", "A.txt", "c.txt", "D.txt">>
FileName(file) == FileNames[file]

Range(seq) == {seq[i] : i \in 1..Len(seq)}

\* a.name.toLowerCase() < b.name.toLowerCase(), for the names above
toLowerCase(name) ==
  CASE name = "A.txt" -> "a.txt"
    [] name = "D.txt" -> "d.txt"
    [] OTHER -> name

LowerCaseOrder == <<"a.txt", "b.txt", "c.txt", "d.txt">>

CodeUnits(name) == CHOOSE i \in 1..Len(LowerCaseOrder) : LowerCaseOrder[i] = name

sortFnc(a, b) ==
  LET aName == CodeUnits(toLowerCase(FileName(a)))
      bName == CodeUnits(toLowerCase(FileName(b)))
  IN IF aName < bName THEN -1 ELSE IF aName > bName THEN 1 ELSE 0

\* this.currentFolder.files.sort(sortFnc) on the files the service returned
SortedFiles(files) ==
  CHOOSE seq \in [1..Cardinality(files) -> files] :
    /\ Range(seq) = files
    /\ \A i, j \in 1..Len(seq) : i < j => sortFnc(seq[i], seq[j]) <= 0

\* filesFailed.join(', '): the names with the separator between them
RECURSIVE join(_, _)
join(names, separator) ==
  IF Len(names) = 0 THEN <<>>
  ELSE IF Len(names) = 1 THEN <<names[1]>>
  ELSE <<names[1], separator>> \o join(Tail(names), separator)

NoNotification == [method |-> "none", text |-> <<>>]

\* snackBar.open('Removed all selected files') or
\* snackBar.openLong('Could not remove: ' + filesFailed.join(', '))
Notification(filesFailed) ==
  IF Len(filesFailed) = 0
    THEN [method |-> "open", text |-> <<"Removed all selected files">>]
    ELSE [method |-> "openLong",
          text |-> <<"Could not remove: ">> \o join(filesFailed, ", ")]

\* The component after construction: nothing selected, toggling allowed, no
\* folder loaded. The fields from pc on are the position of the
\* removeSelectedFile call and what it has done: the selection it was
\* confirmed for, the files it has passed to deleteFile, those whose deletion
\* was rejected, the notification it opened and how it ended. stored is the
\* directory as the media service holds it.
Constructed ==
  [selectedFiles |-> <<>>, toggleBlocked |-> FALSE, currentFolder |-> <<>>,
   stored |-> {}, pc |-> "idle", position |-> 0, filesFailed |-> <<>>,
   event |-> "none", selection |-> <<>>, attempted |-> <<>>, rejected |-> {},
   notified |-> NoNotification, ended |-> "none"]

\* this.selectedFiles.indexOf(file), counted from 1, 0 for -1
indexOf(seq, x) ==
  IF x \in Range(seq) THEN CHOOSE i \in 1..Len(seq) :
                             seq[i] = x /\ \A j \in 1..(i - 1) : seq[j] # x
                      ELSE 0

\* seq.splice(position, 1)
splice(seq, position) ==
  SubSeq(seq, 1, position - 1) \o SubSeq(seq, position + 1, Len(seq))

\* toggleSelection(file), for a file of the folder shown.
ToggleSelection(file) ==
  /\ file \in Range(media.currentFolder)
  /\ LET position == indexOf(media.selectedFiles, file)
     IN media' =
          IF media.toggleBlocked
            THEN [media EXCEPT !.event = "toggleSelection"]
            ELSE [media EXCEPT
                    !.event = "toggleSelection",
                    !.selectedFiles = IF position # 0 THEN splice(@, position)
                                                      ELSE Append(@, file)]
  /\ UNCHANGED <<users, last, del, disk, auth>>

\* removeSelectedFile() up to the confirmation dialog. The dialog is modal:
\* a call starts when none is in progress.
RemoveSelectedFile ==
  /\ media.pc = "idle"
  /\ media' = [media EXCEPT
                 !.toggleBlocked = TRUE, !.pc = "dialog",
                 !.event = "removeSelectedFile", !.position = 0,
                 !.filesFailed = <<>>, !.selection = <<>>, !.attempted = <<>>,
                 !.rejected = {}, !.notified = NoNotification,
                 !.ended = "none"]
  /\ UNCHANGED <<users, last, del, disk, auth>>

\* A loop that gives up at the first deletion that fails.
forOfStopsAtFailure(m, position) ==
  IF position <= Len(m.selectedFiles) /\ Len(m.filesFailed) = 0
    THEN [m EXCEPT !.pc = "delete", !.position = position,
                   !.attempted = Append(@, m.selectedFiles[position])]
    ELSE [m EXCEPT !.pc = "reload", !.position = 0,
                   !.notified = Notification(m.filesFailed),
                   !.selectedFiles = <<>>]

\* for (const file of this.selectedFiles) from the given position to the
\* next await: deleteFile is called for the file at the position, or, past
\* the end, the notification is opened, the selection emptied and the
\* directory reload started.
forOf(m, position) ==
  IF position <= Len(m.selectedFiles)
    THEN [m EXCEPT !.pc = "delete", !.position = position,
                   !.attempted = Append(@, m.selectedFiles[position])]
    ELSE [m EXCEPT !.pc = "reload", !.position = 0,
                   !.notified = Notification(m.filesFailed),
                   !.selectedFiles = <<>>]

\* The dialog closes with the user's answer.
ConfirmRemove(deleteSelectedFiles) ==
  /\ media.pc = "dialog"
  /\ media' =
       IF deleteSelectedFiles = FALSE
         THEN [media EXCEPT !.pc = "idle", !.event = "confirmRemove",
                            !.ended = "declined"]
         ELSE forOf([media EXCEPT !.event = "confirmRemove",
                                  !.selection = media.selectedFiles], 1)
  /\ UNCHANGED <<users, last, del, disk, auth>>

\* await this.mediaService.deleteFile(file) resolves (ok) or rejects, and
\* the loop goes on.
DeleteFile(ok) ==
  /\ media.pc = "delete"
  /\ LET file == media.selectedFiles[media.position]
     IN media' =
          forOf([media EXCEPT
                   !.event = "deleteFile",
                   !.stored = IF ok THEN @ \ {file} ELSE @,
                   !.filesFailed = IF ok THEN @ ELSE Append(@, FileName(file)),
                   !.rejected = IF ok THEN @ ELSE @ \cup {file}],
                media.position + 1)
  /\ UNCHANGED <<users, last, del, disk, auth>>

\* await this.reloadDirectory() resolves (ok), the folder fetched and
\* sorted, or rejects, and the call ends with the rejection.
ReloadDirectory(ok) ==
  /\ media.pc = "reload"
  /\ media' =
       IF ok
         THEN [media EXCEPT !.pc = "idle", !.event = "reloadDirectory",
                            !.currentFolder = SortedFiles(media.stored),
                            !.toggleBlocked = FALSE, !.ended = "finished"]
         ELSE [media EXCEPT !.pc = "idle", !.event = "reloadDirectory",
                            !.ended = "reloadFailed"]
  /\ UNCHANGED <<users, last, del, disk, auth>>

\* -------------------------------------------------------- login middleware

\* res.status(401)
Unauthorized == 401

\* A login request before the middleware runs. trace lists what was done to
\* the directory client, in order; statuses the res.status calls; nextCalls
\* the arguments next was called with.
NoLogin ==
  [pc |-> "idle", username |-> Null, password |-> Null, err |-> Null,
   dn |-> <<>>, trace |-> <<>>, logged |-> FALSE, bindErr |-> Null,
   statuses |-> <<>>, nextCalls |-> <<>>]

\* 'uid=' + username + ',' + adSuffix
buildDn(username) ==
  <<"uid=", username, ",", "ou=people,ou=Students,dc=fbi,dc=h-da,dc=de">>

\* client.search(dn, ...)
ldapSearch(trace) == Append(trace, "search")

\* isLdapAuthenticated(client, dn, password): bind is issued, its callback
\* left to run later, and unbind is called; nothing is returned. thrown
\* names the call that throws, if one does.
isLdapAuthenticated(trace, thrown) ==
  IF thrown = "bind"
    THEN [trace |-> trace, value |-> "thrown"]
    ELSE [trace |-> trace \o <<"bind", "unbind">>, value |-> Undefined]

\* ldapLogin(username, password): the client is created, the search made
\* when isLdapAuthenticated gave a truthy value, an exception logged, the
\* client unbound in the finally block; nothing is returned.
ldapLogin(thrown) ==
  LET created == thrown # "createClient"
      authenticated == IF created
                         THEN isLdapAuthenticated(<<"createClient">>, thrown)
                         ELSE [trace |-> <<>>, value |-> "thrown"]
      tried == IF authenticated.value # "thrown" /\ Truthy(authenticated.value)
                 THEN ldapSearch(authenticated.trace)
                 ELSE authenticated.trace
  IN [trace |-> IF created THEN Append(tried, "unbind") ELSE tried,
      logged |-> authenticated.value = "thrown",
      value |-> Undefined]

\* passportLoginMiddleware(req, res, next) up to the call of authFunction.
PassportLoginMiddleware(r, username, password) ==
  /\ auth[r].pc = "idle"
  /\ auth' = [auth EXCEPT ![r] = [@ EXCEPT !.pc = "authenticate",
                                           !.username = username,
                                           !.password = password]]
  /\ UNCHANGED <<users, last, del, disk, media>>

\* The callback given to authFunction runs with the local strategy's err:
\* on an error ldapLogin is tried, and its result decides between the 401
\* response with next(err) and next(null).
Authenticate(r, err, thrown) ==
  /\ auth[r].pc = "authenticate"
  /\ err = Null => thrown = "none"
  /\ LET result == ldapLogin(thrown)
         refused == err # Null /\ result.value \in {Null, Undefined}
     IN auth' = [auth EXCEPT ![r] =
          IF err = Null
            THEN [@ EXCEPT !.pc = "done", !.nextCalls = Append(@, Null)]
            ELSE [@ EXCEPT
                    !.pc = IF "bind" \in Range(result.trace) THEN "bind"
                                                             ELSE "done",
                    !.err = err,
                    !.dn = buildDn(auth[r].username),
                    !.trace = result.trace,
                    !.logged = result.logged,
                    !.statuses = IF refused THEN Append(@, Unauthorized) ELSE @,
                    !.nextCalls = IF refused THEN Append(@, err)
                                             ELSE Append(@, Null)]]
  /\ UNCHANGED <<users, last, del, disk, media>>

\* The directory answers the bind: the callback given to client.bind runs,
\* and what it returns goes nowhere.
BindCallback(r, bindErr) ==
  /\ auth[r].pc = "bind"
  /\ auth' = [auth EXCEPT ![r] = [@ EXCEPT !.pc = "done", !.bindErr = bindErr,
                                           !.trace = Append(@, "bindCallback")]]
  /\ UNCHANGED <<users, last, del, disk, media>>

\* ---------------------------------------------------------------- inputs

User(role, uid, email, password, name) ==
  [role |-> role, uid |-> uid, email |-> email, password |-> Hash(password),
   name |-> name, picture |-> NoPicture]

\* The authenticated users whose token carries the role stored for them.
StoredActors(us) == {[_id |-> u, role |-> us[u].role] : u \in DOMAIN us}

\* The request bodies whose fields are drawn from the given sets.
Bodies(roles, uids, emails, passwords, currents, names, ids) ==
  [role : roles, uid : uids, email : emails, password : passwords,
   currentPassword : currents, name : names, _id : ids]

\* Requests handled one at a time, each by a stored user whose token carries
\* the stored role: collections with an admin and distinct emails; bodies
\* that vary the role, the email and the _id.
Init ==
  /\ users \in {[u \in Ids |-> User(r[u], Null, e[u], "pw1", "Ann")] :
                 r \in {f \in [Ids -> {"student", "teacher", "admin"}] :
                          \E u \in Ids : f[u] = "admin"},
                 e \in {f \in [Ids -> Emails] :
                          \A u, v \in Ids : u # v => f[u] # f[v]}}
  /\ last = NoRequest
  /\ del = [r \in Requests |-> NoDelete]
  /\ disk = {}
  /\ media = Constructed
  /\ auth = [r \in Requests |-> NoLogin]

Next ==
  \/ Idle /\ \E currentUser \in StoredActors(users), id \in Ids :
       \E newUser \in Bodies(Roles, {Null}, Emails, {Undefined}, {Undefined},
                             {"Ann"}, {NoId} \cup Ids) :
         \E dbApplies \in BOOLEAN :
           UpdateUser(currentUser, id, newUser, dbApplies)
  \/ Idle /\ \E currentUser \in StoredActors(users), id \in Ids :
       DeleteUser(currentUser, id)
  \/ Respond

Spec == Init /\ [][Next]_vars

\* ------------------------------------------------ one update, any request

\* Any authenticated actor: the role is the one in the token, which need not
\* be the role stored now.
TokenActors == [_id : Ids, role : UpdateAuthorized]

AnyBody ==
  Bodies(Roles, {Null, Undefined} \cup Uids, Emails, {Undefined, Null, "", "pw2"},
         Passwords, Names, {NoId} \cup Ids)

\* Collections in which the first user has any role, a uid or none (null,
\* or the field unset), or is missing; the others are teachers with a uid.
InitUpdate ==
  /\ users \in
       {[u \in Ids |-> IF u = 1 THEN User(r, uid, EmailList[1], "pw1", "Ann")
                                ELSE User("teacher", "uidB", EmailList[u], "pw1", "Ann")] :
          r \in Roles, uid \in {Null, Undefined, "uidA"}}
       \cup {[u \in Ids \ {1} |-> User("teacher", "uidB", EmailList[u], "pw1", "Ann")]}
  /\ last = NoRequest
  /\ del = [r \in Requests |-> NoDelete]
  /\ disk = {}
  /\ media = Constructed
  /\ auth = [r \in Requests |-> NoLogin]

NextUpdate ==
  Idle /\ \E currentUser \in TokenActors, id \in Ids, newUser \in AnyBody :
    \E dbApplies \in BOOLEAN :
      UpdateUser(currentUser, id, newUser, dbApplies)

SpecUpdate == InitUpdate /\ [][NextUpdate]_vars

\* ------------------------------------------- concurrent deleteUser requests

InitRace ==
  /\ users \in {[u \in Ids |-> User(r[u], Null, EmailList[u], "pw1", "Ann")] :
                 r \in {f \in [Ids -> {"student", "teacher", "admin"}] :
                          \E u \in Ids : f[u] = "admin"}}
  /\ last = NoRequest
  /\ del = [r \in Requests |-> NoDelete]
  /\ disk = {}
  /\ media = Constructed
  /\ auth = [r \in Requests |-> NoLogin]

NextRace ==
  \/ \E r \in Requests, currentUser \in StoredActors(users), id \in Ids :
       DeleteFind(r, currentUser, id)
  \/ \E r \in Requests : DeleteThen(r)

SpecRace == InitRace /\ [][NextRace]_vars

\* -------------------------------------------------------------- searches

QueryChars == {" ", "a", "."}

Queries ==
  {NoQuery} \cup UNION {[1..n -> QueryChars] : n \in 0..MaxQueryLen}

\* Collections in which every user is a student or a teacher, with a uid
\* or without.
InitSearch ==
  /\ users \in {[u \in Ids |-> User(r[u], uid[u], EmailList[u], "pw1",
                                   IF u = 1 THEN "Ann" ELSE "Bob")] :
                 r \in [Ids -> {"student", "teacher"}],
                 uid \in [Ids -> {Null, "uidA"}]}
  /\ last = NoRequest
  /\ del = [r \in Requests |-> NoDelete]
  /\ disk = {}
  /\ media = Constructed
  /\ auth = [r \in Requests |-> NoLogin]

NextSearch ==
  Idle /\ \E currentUser \in [_id : Ids, role : SearchAuthorized],
             role \in Roles, query \in Queries, limit \in {0, 1} :
           \E kept \in SUBSET Ids :
             SearchUser(currentUser, role, query, limit, kept)

SpecSearch == InitSearch /\ [][NextSearch]_vars

\* -------------------------------------------------------------- pictures

Suffixes == 1..NumSuffixes

InitPicture ==
  /\ users \in {[u \in Ids |-> User("student", uid[u], EmailList[u], "pw1", "Ann")] :
                 uid \in [Ids -> {Null, "uidA"}]}
  /\ last = NoRequest
  /\ del = [r \in Requests |-> NoDelete]
  /\ disk = {}
  /\ media = Constructed
  /\ auth = [r \in Requests |-> NoLogin]

NextPicture ==
  \/ Idle /\ \E currentUser \in [_id : Ids, role : Roles], id \in Ids,
                suffix \in Suffixes :
              AddUserPicture(currentUser, id, suffix)
  \/ Respond

SpecPicture == InitPicture /\ [][NextPicture]_vars

\* ------------------------------------------------------ media component

\* The component once ngOnInit has loaded the course's directory.
InitMedia ==
  /\ users = [u \in Ids |-> User("teacher", Null, EmailList[u], "pw1", "Ann")]
  /\ last = NoRequest
  /\ del = [r \in Requests |-> NoDelete]
  /\ disk = {}
  /\ media = [Constructed EXCEPT !.stored = Files,
                                 !.currentFolder = SortedFiles(Files)]
  /\ auth = [r \in Requests |-> NoLogin]

NextMedia ==
  \/ \E file \in Files : ToggleSelection(file)
  \/ RemoveSelectedFile
  \/ \E deleteSelectedFiles \in BOOLEAN : ConfirmRemove(deleteSelectedFiles)
  \/ \E ok \in BOOLEAN : DeleteFile(ok)
  \/ \E ok \in BOOLEAN : ReloadDirectory(ok)

SpecMedia == InitMedia /\ [][NextMedia]_vars

\* ---------------------------------------------------------------- logins

\* What the local strategy and the bind callback can report, and the calls
\* of ldapLogin that can throw.
LocalErrs == {Null, "Unauthorized"}
BindErrs == {Null, "InvalidCredentialsError"}
Throwers == {"none", "createClient", "bind"}

InitLogin ==
  /\ users = [u \in Ids |-> User("student", Null, EmailList[u], "pw1", "Ann")]
  /\ last = NoRequest
  /\ del = [r \in Requests |-> NoDelete]
  /\ disk = {}
  /\ media = Constructed
  /\ auth = [r \in Requests |-> NoLogin]

NextLogin ==
  \/ \E r \in Requests, username \in {EmailList[1], EmailList[2]},
         password \in Passwords :
       PassportLoginMiddleware(r, username, password)
  \/ \E r \in Requests, err \in LocalErrs, thrown \in Throwers :
       Authenticate(r, err, thrown)
  \/ \E r \in Requests, bindErr \in BindErrs : BindCallback(r, bindErr)

SpecLogin == InitLogin /\ [][NextLogin]_vars

\* ==================================================================== claims

\* C1: deleteUser(id) is rejected with a bad-request error, the users
\* unchanged, when exactly one user has role admin and id is that user;
\* in every other case the user with that id is removed, no other user is
\* changed, and the result is {result: true}.
C1_DeleteUserContract ==
  last.op = "delete" =>
    LET admins == AdminUsers(last.before)
    IN IF Cardinality(admins) = 1 /\ last.id \in admins
         THEN /\ last.status = "BadRequestError"
              /\ users = last.before
         ELSE /\ last.status = "ok"
              /\ last.body = [result |-> TRUE]
              /\ DOMAIN users = DOMAIN last.before \ {last.id}
              /\ \A u \in DOMAIN users : users[u] = last.before[u]

\* Both cases of C1 happen: the sole admin is refused here; C2's witness has
\* the removal of an admin that is not the only one.
C1_Witness ==
  /\ last.op = "delete"
  /\ last.status = "BadRequestError"
  /\ AdminUsers(users) = {last.id}

\* C2: from a state with an admin, requests handled one at a time, each by
\* an actor whose role is the stored one, always leave an admin.
C2_AnAdminRemains == AdminUsers(users) # {}

\* An admin other than the only one has just been removed.
C2_Witness ==
  /\ last.op = "delete"
  /\ last.status = "ok"
  /\ last.id \in AdminUsers(last.before)
  /\ Cardinality(AdminUsers(users)) = 1

\* Two deleteUser requests that both read the same two admins, each aimed at
\* a different one of them.
RacingDeletes(r1, r2) ==
  /\ r1 # r2
  /\ del[r1].pc = "done" /\ del[r2].pc = "done"
  /\ del[r1].adminUsers = del[r2].adminUsers
  /\ Cardinality(del[r1].adminUsers) = 2
  /\ del[r1].id # del[r2].id
  /\ {del[r1].id, del[r2].id} = del[r1].adminUsers

\* C3: two concurrent deleteUser requests, each aimed at a different one of
\* exactly two admins, that both read the admin list before either removal
\* both pass the sole-admin check and both remove: no admin is left.
C3_RaceRemovesBothAdmins ==
  \A r1, r2 \in Requests :
    RacingDeletes(r1, r2) =>
      /\ del[r1].status = "ok" /\ del[r2].status = "ok"
      /\ del[r1].id \notin DOMAIN users /\ del[r2].id \notin DOMAIN users
      /\ AdminUsers(users) = {}

\* The interleaving exists: a reachable state with zero admins.
C3_Witness ==
  /\ \E r1, r2 \in Requests : RacingDeletes(r1, r2)
  /\ AdminUsers(users) = {}


\* ------------------------------------------------- updateUser: the request

\* The edit levels as the specification states them.
Level(role) == CASE role = "student" -> 0 [] role = "teacher" -> 1 [] role = "admin" -> 2

LevelRoles == {"student", "teacher", "admin"}

\* The update handled last targets a stored user.
UpdateOfStored == last.op = "update" /\ last.id \in DOMAIN last.before

SelfUpdate == last.id = last.currentUser._id

\* No user other than the record being updated holds the submitted email.
EmailHeldByOther ==
  \E u \in DOMAIN last.before :
    u # last.id /\ last.before[u].email = last.newUser.email

\* The request passes the checks made before the email lookup.
ReachesEmailCheck ==
  /\ last.newUser.role \in LevelRoles
  /\ ~(SelfUpdate /\ last.currentUser.role # last.newUser.role)

\* The request passes the checks made before the edit-level comparison.
ReachesLevelCheck ==
  /\ ReachesEmailCheck
  /\ sameEmail(last.before, last.newUser) = {}
  /\ last.id \in DOMAIN last.before
  /\ last.before[last.id].role \in LevelRoles

\* The request passes the checks made before the password check.
ReachesPasswordCheck ==
  /\ ReachesLevelCheck
  /\ \/ last.currentUser.role = "admin"
     \/ /\ SelfUpdate \/ Level(last.currentUser.role) > Level(last.before[last.id].role)
        /\ last.newUser.role = last.before[last.id].role
        /\ last.newUser.uid = last.before[last.id].uid

\* C4 (the claim as stated): on the actor's own id, a payload whose role
\* differs from the actor's is rejected with 'You can't change your own
\* role.' and nothing is stored; a student's self-update that keeps role and
\* uid, uses an email no other user has and sends no password is accepted and
\* the other submitted fields are stored.
C4_SelfUpdateClaim ==
  (last.op = "update" /\ SelfUpdate) =>
    /\ (last.newUser.role # last.currentUser.role /\ last.newUser.role \in LevelRoles) =>
         /\ last.status = "BadRequestError"
         /\ last.message = "You can't change your own role."
         /\ users = last.before
    /\ ( /\ last.id \in DOMAIN last.before
         /\ last.currentUser.role = "student"
         /\ last.before[last.id].role = "student"
         /\ last.newUser.role = "student"
         /\ last.newUser.uid = last.before[last.id].uid
         /\ ~EmailHeldByOther
         /\ last.newUser.password = Undefined ) =>
         /\ last.status = "ok"
         /\ users[last.id].email = last.newUser.email
         /\ users[last.id].name = last.newUser.name

\* C5: a non-admin's updateUser, accepted or rejected, leaves the stored role
\* and uid of the target as they were; an admin's update of another user
\* with a different non-null uid, in a request the other checks let pass
\* (known roles, the body naming the record, an email no other user holds,
\* no password or a new one with a valid current one), is accepted and stores
\* the new uid.
C5_OnlyAdminsChangeRoleAndUid ==
  UpdateOfStored =>
    /\ last.currentUser.role # "admin" =>
         /\ last.id \in DOMAIN users
         /\ users[last.id].role = last.before[last.id].role
         /\ users[last.id].uid = last.before[last.id].uid
    /\ ( /\ last.currentUser.role = "admin"
         /\ ~SelfUpdate
         /\ last.newUser.uid \in Uids
         /\ last.newUser.uid # last.before[last.id].uid
         /\ last.newUser.role \in LevelRoles
         /\ last.before[last.id].role \in LevelRoles
         /\ last.newUser._id = last.id
         /\ ~EmailHeldByOther
         /\ \/ NoPasswordSent(last.newUser)
            \/ /\ last.newUser.password \in Passwords
               /\ IsValidPassword(last.before[last.id],
                                  last.newUser.currentPassword) ) =>
         /\ last.status = "ok"
         /\ users[last.id].uid = last.newUser.uid

\* An admin has replaced another user's uid by a different one.
C5_Witness ==
  /\ UpdateOfStored
  /\ last.status = "ok"
  /\ last.currentUser.role = "admin"
  /\ ~SelfUpdate
  /\ last.before[last.id].uid \in Uids
  /\ users[last.id].uid \in Uids \ {last.before[last.id].uid}

\* C6: a non-admin's updateUser on another user's record is accepted only if
\* the actor's edit level is strictly greater than that of the role stored
\* for the target; otherwise it is rejected, the collection unchanged, and
\* the error is the forbidden one when the request passes the checks made
\* before the level comparison; an admin is never rejected by this check.
C6_EditLevelGate ==
  ( /\ UpdateOfStored
    /\ ~SelfUpdate
    /\ last.before[last.id].role \in LevelRoles ) =>
    /\ (last.currentUser.role # "admin" /\ last.status = "ok") =>
         Level(last.currentUser.role) > Level(last.before[last.id].role)
    /\ ( /\ last.currentUser.role # "admin"
         /\ Level(last.currentUser.role) <= Level(last.before[last.id].role) ) =>
         /\ last.status # "ok"
         /\ users = last.before
         /\ ReachesLevelCheck =>
              /\ last.status = "ForbiddenError"
              /\ last.message =
                   "You don't have the authorization to change a user of this role."
    /\ last.currentUser.role = "admin" =>
         last.message #
           "You don't have the authorization to change a user of this role."

\* A teacher has updated a student.
C6_Witness ==
  /\ UpdateOfStored
  /\ ~SelfUpdate
  /\ last.status = "ok"
  /\ last.currentUser.role = "teacher"
  /\ last.before[last.id].role = "student"
  /\ users[last.id] # last.before[last.id]

\* C7 (the claim as stated): from distinct emails, updateUser requests handled
\* one at a time keep the emails distinct: an update whose email another
\* user than the record being updated holds is rejected with 'This email
\* address is already in use.' and nothing is stored.
C7_EmailsStayDistinct ==
  /\ \A u, v \in DOMAIN users : u # v => users[u].email # users[v].email
  /\ (last.op = "update" /\ EmailHeldByOther /\ ReachesEmailCheck) =>
       /\ last.status = "BadRequestError"
       /\ last.message = "This email address is already in use."
       /\ users = last.before

\* C8: updateUser with a non-empty password changes the stored password
\* only if currentPassword is valid for the existing record; with an invalid
\* one it is rejected and nothing is stored, with 'Invalid current password!'
\* when the request passes the checks made before; with an undefined or
\* empty password the stored password stays and no such check is made.
C8_PasswordNeedsCurrentPassword ==
  UpdateOfStored =>
    LET oldUser == last.before[last.id]
        valid == IsValidPassword(oldUser, last.newUser.currentPassword)
    IN /\ last.id \in DOMAIN users
       /\ users[last.id].password # oldUser.password =>
            /\ last.newUser.password \in Passwords
            /\ valid
            /\ users[last.id].password = Hash(last.newUser.password)
       /\ (last.newUser.password \in Passwords /\ ~valid) =>
            /\ last.status # "ok"
            /\ users = last.before
            /\ ReachesPasswordCheck =>
                 /\ last.status = "BadRequestError"
                 /\ last.message = "Invalid current password!"
       /\ last.newUser.password \in {Undefined, ""} =>
            /\ users[last.id].password = oldUser.password
            /\ last.message # "Invalid current password!"

\* A password has been replaced on a valid current password.
C8_Witness ==
  /\ UpdateOfStored
  /\ last.status = "ok"
  /\ users[last.id].password # last.before[last.id].password

\* The query is missing, empty or only whitespace.
EmptyQuery(query) ==
  query = NoQuery \/ \A i \in 1..Len(query) : query[i] = " "

\* C9 (the claim as stated): searchUser with role student or teacher and an
\* empty query (missing, the empty string, or only whitespace) is rejected
\* with a bad-request error and performs no database search.
C9_EmptyQueryRejected ==
  ( /\ last.op = "search"
    /\ last.args.role \in {"student", "teacher"}
    /\ EmptyQuery(last.args.query) ) =>
    /\ last.status = "BadRequestError"
    /\ ~last.body.searched

\* C10 (the claim as stated): in the user object addUserPicture returns, the
\* password is blank, and the uid is null exactly when the viewer is neither
\* the subject nor a teacher or admin, who receive the stored uid.
C10_PictureResponseUid ==
  (last.op = "picture" /\ last.status = "ok") =>
    /\ last.body.password = ""
    /\ last.body.uid =
         IF \/ last.currentUser._id = last.id
            \/ last.currentUser.role \in {"teacher", "admin"}
           THEN last.before[last.id].uid ELSE Null

\* The removeSelectedFile call was confirmed, and its loop has ended.
RemoveConfirmed ==
  media.pc \in {"delete", "reload"} \/ media.ended \in {"finished", "reloadFailed"}

RemoveLoopOver ==
  media.pc = "reload" \/ media.ended \in {"finished", "reloadFailed"}

\* The names of the files of the confirmed selection whose deleteFile was
\* rejected, in selection order.
RejectedNames ==
  LET failed == SelectSeq(media.selection, LAMBDA file : file \in media.rejected)
  IN [i \in 1..Len(failed) |-> FileName(failed[i])]

\* C11: removeSelectedFile, once confirmed, calls deleteFile for every
\* selected file exactly once, one after the other in selection order, a
\* failed deletion not stopping the later ones; the final notification names
\* exactly the files whose deletion failed, and is 'Removed all selected
\* files' only when none failed; after it selectedFiles is empty.
C11_BulkDeletionBestEffort ==
  /\ RemoveConfirmed =>
       /\ media.attempted = SubSeq(media.selection, 1, Len(media.attempted))
       /\ \A i, j \in 1..Len(media.attempted) :
            i # j => media.attempted[i] # media.attempted[j]
       /\ media.rejected \subseteq Range(media.attempted)
  /\ media.pc = "delete" =>
       /\ media.position = Len(media.attempted)
       /\ media.notified = NoNotification
  /\ RemoveLoopOver =>
       /\ media.attempted = media.selection
       /\ media.notified.method = (IF media.rejected = {} THEN "open" ELSE "openLong")
       /\ media.rejected = {} =>
            media.notified.text = <<"Removed all selected files">>
       /\ media.rejected # {} =>
            /\ media.notified.text =
                 <<"Could not remove: ">> \o join(RejectedNames, ", ")
            /\ Range(media.notified.text) \ {"Could not remove: ", ", "} =
                 {FileName(file) : file \in media.rejected}
  /\ (RemoveLoopOver /\ media.toggleBlocked) => media.selectedFiles = <<>>

\* A confirmed call for three files, of which one deletion failed and two
\* succeeded, has finished with the notification naming that file.
C11_Witness ==
  /\ media.ended = "finished"
  /\ Len(media.selection) = 3
  /\ Cardinality(media.rejected) = 1
  /\ media.rejected # {media.selection[3]}
  /\ media.notified.method = "openLong"
  /\ Len(media.notified.text) = 2
  /\ media.selectedFiles = <<>>

\* The directory answered the bind of request r without an error.
BindSucceeded(r) ==
  "bindCallback" \in Range(auth[r].trace) /\ auth[r].bindErr = Null

\* C12 (the claim as stated): when local authentication fails, the
\* middleware falls back to the directory service: if the bind for the
\* submitted username and password succeeds, it calls next(null) and sends
\* no 401 response; only when the directory check fails too does it respond
\* 401 and call next(err). In every case next is called exactly once.
C12_DirectoryFallback ==
  \A r \in Requests :
    auth[r].pc = "done" =>
      /\ Len(auth[r].nextCalls) = 1
      /\ auth[r].err = Null =>
           auth[r].nextCalls = <<Null>> /\ auth[r].statuses = <<>>
      /\ (auth[r].err # Null /\ BindSucceeded(r)) =>
           auth[r].nextCalls = <<Null>> /\ auth[r].statuses = <<>>
      /\ (auth[r].err # Null /\ ~BindSucceeded(r)) =>
           /\ auth[r].nextCalls = <<auth[r].err>>
           /\ auth[r].statuses = <<Unauthorized>>

\* What the middleware does instead: a local failure is always answered
\* with 401 and next(err), whatever the directory says; next is called once.
C12_LocalFailureAlwaysRefused ==
  \A r \in Requests :
    auth[r].pc \in {"bind", "done"} =>
      /\ Len(auth[r].nextCalls) = 1
      /\ auth[r].err # Null =>
           /\ auth[r].nextCalls = <<auth[r].err>>
           /\ auth[r].statuses = <<Unauthorized>>

\* C13 (the claim as stated): on every path of ldapLogin on which a client
\* was created (the bind succeeds, fails, or a call throws), unbind is
\* called before ldapLogin returns, and after the bind and search
\* operations on that client, not before them; an exception from the
\* directory service is swallowed and authentication fails with 401.
C13_ReleasedAfterBindAndSearch ==
  \A r \in Requests :
    /\ "createClient" \in Range(auth[r].trace) =>
         /\ "unbind" \in Range(auth[r].trace)
         /\ \A i \in 1..Len(auth[r].trace) :
              (auth[r].trace[i] = "unbind" /\ "bind" \in Range(auth[r].trace)) =>
                \E j \in 1..(i - 1) : auth[r].trace[j] = "bindCallback"
    /\ auth[r].logged =>
         /\ auth[r].statuses = <<Unauthorized>>
         /\ auth[r].nextCalls = <<auth[r].err>>

\* C14 (the claim as stated): toggleBlocked is true only while a
\* removeSelectedFile call is in progress: however the call ends (finished,
\* declined in the dialog, or the reload failed) toggleBlocked is false
\* again; while toggleBlocked is true, toggleSelection leaves selectedFiles
\* unchanged.
C14_BlockedOnlyDuringRemove ==
  /\ [](media.toggleBlocked => media.pc # "idle")
  /\ [][(media'.event = "toggleSelection" /\ media.toggleBlocked) =>
          media'.selectedFiles = media.selectedFiles]_vars

====
